---- MODULE Spec2Model ----
(***************************************************************************)
(* Model of SchedulerEngine (backend/app/services/scheduler_engine.py):    *)
(* the greedy per-slot dispatch of a solar / battery / grid / generator    *)
(* microgrid.                                                              *)
(*                                                                         *)
(* Numbers.  The engine computes in Python floats.  The model computes in  *)
(* exact rationals <<n, d>> (d > 0, lowest terms), so that every min, max, *)
(* comparison, threshold and clamp of the code is decided as the code      *)
(* decides it on the exact values; binary floating-point error is not      *)
(* modelled.  round(x, k) is modelled as Python documents it: to the       *)
(* nearest multiple of 10^-k, ties to the even one.                        *)
(***************************************************************************)
EXTENDS Integers, Sequences, FiniteSets, TLC

-----------------------------------------------------------------------------
(* Exact rational arithmetic                                               *)

Abs(n) == IF n < 0 THEN -n ELSE n

RECURSIVE GCD(_, _)
GCD(a, b) == IF b = 0 THEN a ELSE GCD(b, a % b)

\* floor division for any sign of n, d > 0
FloorDiv(n, d) == IF n >= 0 THEN n \div d ELSE -((-n + d - 1) \div d)

Norm(n, d) ==
    LET s == IF d < 0 THEN -1 ELSE 1
        g == GCD(Abs(n), Abs(d))
    IN  IF n = 0 THEN <<0, 1>> ELSE <<(s * n) \div g, (s * d) \div g>>

Q(n, d) == Norm(n, d)
I(k) == <<k, 1>>
Zero == I(0)

RAdd(a, b) ==
    LET g == GCD(a[2], b[2])
        l == (a[2] \div g) * b[2]
    IN  Norm(a[1] * (l \div a[2]) + b[1] * (l \div b[2]), l)
RNeg(a) == <<-a[1], a[2]>>
RSub(a, b) == RAdd(a, RNeg(b))
RMul(a, b) == Norm(a[1] * b[1], a[2] * b[2])
RDiv(a, b) == Norm(a[1] * b[2], a[2] * b[1])
RLt(a, b) == a[1] * b[2] < b[1] * a[2]
RLe(a, b) == a[1] * b[2] <= b[1] * a[2]
RGt(a, b) == RLt(b, a)
RGe(a, b) == RLe(b, a)
RMin(a, b) == IF RLt(b, a) THEN b ELSE a
RMax(a, b) == IF RGt(b, a) THEN b ELSE a
RAbs(a) == <<Abs(a[1]), a[2]>>

\* Python round(x, k) with scale = 10^k: nearest multiple of 1/scale, ties to even
Round(x, scale) ==
    LET num == x[1] * scale
        f == FloorDiv(num, x[2])
        twice == 2 * (num - f * x[2])
        m == IF twice < x[2] THEN f
             ELSE IF twice > x[2] THEN f + 1
             ELSE IF f % 2 = 0 THEN f ELSE f + 1
    IN  Norm(m, scale)

-----------------------------------------------------------------------------
(* Devices                                                                 *)

NoWindow == [present |-> FALSE, start |-> 0, end |-> 24]
Window(s, e) == [present |-> TRUE, start |-> s, end |-> e]

Device(id, name, type, watts, prio, active, win) ==
    [id |-> id, name |-> name, device_type |-> type,
     power_consumption_watts |-> watts, priority_level |-> prio,
     is_active |-> active, preferred_hours |-> win]

\* 'irrigation' in name.lower() or 'pump' in name.lower(), on the names of the pool
NameIsIrrigation(name) == name \in {"Irrigation Pump", "Well Pump", "Pool Pump"}

IsIrrigationPump(d) ==
    d.device_type = "irrigation" \/ NameIsIrrigation(d.name)

\* device['power_consumption_watts'] / 1000.0
PowerKw(d) == Q(d.power_consumption_watts, 1000)

RECURSIVE SumPowerKw(_)
SumPowerKw(devs) ==
    IF devs = <<>> THEN Zero
    ELSE RAdd(PowerKw(Head(devs)), SumPowerKw(Tail(devs)))

Range(s) == {s[i] : i \in DOMAIN s}

\* lexicographic <= on the 2-tuples used as sort keys
KeyLe(a, b) == a[1] < b[1] \/ (a[1] = b[1] /\ a[2] <= b[2])

RECURSIVE StableSort(_, _)
\* sorted(seq, key=...) with keys[i] the key of seq[i]; Python's sort is stable
StableSort(seq, keys) ==
    IF seq = <<>> THEN <<>>
    ELSE LET n == Len(seq)
             restSeq == SubSeq(seq, 1, n - 1)
             restKeys == SubSeq(keys, 1, n - 1)
             sorted == StableSort(restSeq, restKeys)
             k == Cardinality({i \in 1..(n - 1) : KeyLe(restKeys[i], keys[n])})
         IN  SubSeq(sorted, 1, k) \o <<seq[n]>> \o SubSeq(sorted, k + 1, n - 1)

TypeRank(d) ==
    IF d.device_type = "essential" THEN 0
    ELSE IF d.device_type = "flexible" THEN 1 ELSE 2

\* active_devices = [d for d in devices if d.get('is_active', True)]
ActiveDevices(devices) == SelectSeq(devices, LAMBDA d : d.is_active)

\* mutant: the active devices sorted by priority_level, then id
SortedByPriorityThenId(devices) ==
    LET act == ActiveDevices(devices)
    IN  StableSort(act, [i \in DOMAIN act |-> <<act[i].priority_level, act[i].id>>])

\* sorted(active_devices, key=(type rank, priority_level))
SortedDevices(devices) ==
    LET act == ActiveDevices(devices)
    IN  StableSort(act, [i \in DOMAIN act |-> <<TypeRank(act[i]), act[i].priority_level>>])

-----------------------------------------------------------------------------
(* _select_devices_for_slot                                                *)

\* a device's preferred-hour window excludes the slot's hour
OutsidePreferred(d, hour) ==
    /\ d.preferred_hours.present
    /\ ~(d.preferred_hours.start <= hour /\ hour < d.preferred_hours.end)

\* sum of the essential draws already selected, times safety_margin
EssentialBuffer(cfg, sel) ==
    RMul(SumPowerKw(SelectSeq(sel, LAMBDA d : d.device_type = "essential")),
         cfg.safety_margin)

\* selected_devices.append(d); available_power_kw -= draw
Take(st, d) == [sel |-> Append(st.sel, d), avail |-> RSub(st.avail, PowerKw(d))]

\* forecast_power < available_solar_kw * 0.7
PowerDropDetected(forecast_mean, available_solar_kw) ==
    RLt(forecast_mean, RMul(available_solar_kw, Q(7, 10)))

\* available_solar_kw > max(20.0, capacity_kw * 0.5)
IsHighSolar(cfg, available_solar_kw) ==
    RGt(available_solar_kw, RMax(I(20), RMul(cfg.capacity_kw, Q(1, 2))))

RECURSIVE AddEssentialWithinBudget(_, _)
\* mutant: an essential device is appended only while the budget covers it
AddEssentialWithinBudget(st, devs) ==
    IF devs = <<>> THEN st
    ELSE IF RGe(st.avail, PowerKw(Head(devs)))
         THEN AddEssentialWithinBudget(Take(st, Head(devs)), Tail(devs))
         ELSE AddEssentialWithinBudget(st, Tail(devs))

RECURSIVE AddEssential(_, _)
\* Step 1: every essential device is appended
AddEssential(st, devs) ==
    IF devs = <<>> THEN st
    ELSE AddEssential(Take(st, Head(devs)), Tail(devs))

\* body of the irrigation loop for one pump
PumpStep(cfg, st, pump, hour, current_soc, drop, high) ==
    IF OutsidePreferred(pump, hour) THEN st
    ELSE IF drop /\ RLt(current_soc, Q(4, 10)) THEN st
    ELSE LET p == PowerKw(pump)
             buf == EssentialBuffer(cfg, st.sel)
         IN  IF high
             THEN IF RGe(RSub(st.avail, p), RMul(buf, Q(1, 2)))
                  THEN Take(st, pump) ELSE st
             ELSE IF RGe(st.avail, RAdd(p, buf)) THEN Take(st, pump)
             ELSE IF RGt(st.avail, Zero) THEN Take(st, pump)
             ELSE IF pump.priority_level <= 2 THEN Take(st, pump)
             ELSE st

RECURSIVE PumpLoop(_, _, _, _, _, _, _)
PumpLoop(cfg, st, pumps, hour, current_soc, drop, high) ==
    IF pumps = <<>> THEN st
    ELSE PumpLoop(cfg, PumpStep(cfg, st, Head(pumps), hour, current_soc, drop, high),
                  Tail(pumps), hour, current_soc, drop, high)

\* mutant: a device inside its preferred hours is added whatever the budget
FlexStepIgnoresBudget(cfg, st, d, hour) ==
    IF OutsidePreferred(d, hour) THEN st ELSE Take(st, d)

\* body of the flexible/optional loop for one device
FlexStep(cfg, st, d, hour) ==
    IF OutsidePreferred(d, hour) THEN st
    ELSE IF RGe(RSub(st.avail, PowerKw(d)), EssentialBuffer(cfg, st.sel))
         THEN Take(st, d)
         ELSE st

RECURSIVE FlexLoopStopsAtMisfit(_, _, _, _)
\* mutant: the first device that is not added ends the loop (break for continue)
FlexLoopStopsAtMisfit(cfg, st, devs, hour) ==
    IF devs = <<>> THEN st
    ELSE IF FlexStep(cfg, st, Head(devs), hour) = st THEN st
         ELSE FlexLoopStopsAtMisfit(cfg, FlexStep(cfg, st, Head(devs), hour),
                                    Tail(devs), hour)

RECURSIVE FlexLoop(_, _, _, _)
FlexLoop(cfg, st, devs, hour) ==
    IF devs = <<>> THEN st
    ELSE FlexLoop(cfg, FlexStep(cfg, st, Head(devs), hour), Tail(devs), hour)

EssentialDevices(devices) ==
    SelectSeq(devices, LAMBDA d : d.device_type = "essential" /\ d.is_active)

IrrigationPumps(devices) ==
    SelectSeq(devices, LAMBDA d : d.is_active /\ IsIrrigationPump(d))

FlexibleDevices(devices) ==
    SelectSeq(devices, LAMBDA d : /\ d.device_type \in {"flexible", "optional"}
                                  /\ d.is_active
                                  /\ ~IsIrrigationPump(d))

\* sorted(irrigation_pumps, key=priority_level)
IrrigationPumpsSorted(devices) ==
    LET pumps == IrrigationPumps(devices)
    IN  StableSort(pumps, [i \in DOMAIN pumps |-> <<0, pumps[i].priority_level>>])

\* the list returned by _select_devices_for_slot; forecast_mean is the raw
\* forecast_point['power_kw']['mean'], available_solar_kw the clamped supply
SelectDevicesForSlot(cfg, devices, hour, forecast_mean, current_soc, available_solar_kw) ==
    LET drop == PowerDropDetected(forecast_mean, available_solar_kw)
        high == IsHighSolar(cfg, available_solar_kw)
        s0 == [sel |-> <<>>, avail |-> available_solar_kw]
        s1 == AddEssential(s0, EssentialDevices(devices))
        s2 == PumpLoop(cfg, s1, IrrigationPumpsSorted(devices), hour, current_soc, drop, high)
        s3 == FlexLoop(cfg, s2, FlexibleDevices(devices), hour)
    IN  s3.sel

-----------------------------------------------------------------------------
(* Energy balance of one slot (generate_schedule, lines 117-180)           *)

\* _get_grid_rate
GetGridRate(cfg, hour) ==
    IF cfg.grid_peak_hours.start <= hour /\ hour < cfg.grid_peak_hours.end
    THEN cfg.grid_peak_rate
    ELSE cfg.grid_off_peak_rate

\* slot_duration_hours = time_slot_minutes / 60.0
SlotDurationHours(time_slot_minutes) == Q(time_slot_minutes, 60)

NoFlow ==
    [battery_charge_kw |-> Zero, battery_discharge_kw |-> Zero,
     grid_import_kw |-> Zero, grid_export_kw |-> Zero,
     generator_power_kw |-> Zero, remaining_excess |-> Zero, generator_ran |-> FALSE]

\* (battery_max_soc - current_soc) * capacity / slot_duration_hours
ChargeHeadroomKw(cfg, current_soc, h) ==
    RDiv(RMul(RSub(cfg.battery_max_soc, current_soc), cfg.battery_capacity_kwh), h)

\* (current_soc - battery_min_soc) * capacity / slot_duration_hours
DischargeHeadroomKw(cfg, current_soc, h) ==
    RDiv(RMul(RSub(current_soc, cfg.battery_min_soc), cfg.battery_capacity_kwh), h)

\* mutant: the whole surplus is exported, the charge not subtracted
SurplusExportsNet(cfg, net_energy_kw, current_soc, h) ==
    LET max_charge_rate ==
            RMin(RMin(cfg.battery_max_charge_kw, net_energy_kw),
                 ChargeHeadroomKw(cfg, current_soc, h))
    IN  [NoFlow EXCEPT
            !.battery_charge_kw = max_charge_rate,
            !.remaining_excess = RSub(net_energy_kw, max_charge_rate),
            !.grid_export_kw =
                IF RGt(net_energy_kw, Q(1, 100)) /\ cfg.grid_export_enabled
                THEN net_energy_kw ELSE Zero]

\* mutant: the charge is not capped by battery_max_charge_kw
SurplusUncapped(cfg, net_energy_kw, current_soc, h) ==
    LET max_charge_rate == RMin(net_energy_kw, ChargeHeadroomKw(cfg, current_soc, h))
        remaining_excess == RSub(net_energy_kw, max_charge_rate)
    IN  [NoFlow EXCEPT
            !.battery_charge_kw = max_charge_rate,
            !.remaining_excess = remaining_excess,
            !.grid_export_kw =
                IF RGt(remaining_excess, Q(1, 100)) /\ cfg.grid_export_enabled
                THEN remaining_excess ELSE Zero]

\* mutant: the remaining surplus is exported whether or not export is enabled
SurplusAlwaysExports(cfg, net_energy_kw, current_soc, h) ==
    LET max_charge_rate ==
            RMin(RMin(cfg.battery_max_charge_kw, net_energy_kw),
                 ChargeHeadroomKw(cfg, current_soc, h))
        remaining_excess == RSub(net_energy_kw, max_charge_rate)
    IN  [NoFlow EXCEPT
            !.battery_charge_kw = max_charge_rate,
            !.remaining_excess = remaining_excess,
            !.grid_export_kw =
                IF RGt(remaining_excess, Q(1, 100)) THEN remaining_excess ELSE Zero]

\* mutant: the surplus is exported first, the battery charged from what is left
SurplusExportsFirst(cfg, net_energy_kw, current_soc, h) ==
    LET grid_export_kw ==
            IF RGt(net_energy_kw, Q(1, 100)) /\ cfg.grid_export_enabled
            THEN net_energy_kw ELSE Zero
        left == RSub(net_energy_kw, grid_export_kw)
        max_charge_rate ==
            RMin(RMin(cfg.battery_max_charge_kw, left),
                 ChargeHeadroomKw(cfg, current_soc, h))
    IN  [NoFlow EXCEPT
            !.battery_charge_kw = max_charge_rate,
            !.remaining_excess = RSub(left, max_charge_rate),
            !.grid_export_kw = grid_export_kw]

\* branch net_energy_kw > 0
Surplus(cfg, net_energy_kw, current_soc, h) ==
    LET max_charge_rate ==
            RMin(RMin(cfg.battery_max_charge_kw, net_energy_kw),
                 ChargeHeadroomKw(cfg, current_soc, h))
        remaining_excess == RSub(net_energy_kw, max_charge_rate)
    IN  [NoFlow EXCEPT
            !.battery_charge_kw = max_charge_rate,
            !.remaining_excess = remaining_excess,
            !.grid_export_kw =
                IF RGt(remaining_excess, Q(1, 100)) /\ cfg.grid_export_enabled
                THEN remaining_excess ELSE Zero]

\* mutant: the comparison is the wrong way round, the dearer source is chosen
ArbitrateDearer(cfg, flows, deficit, hour, h) ==
    LET grid_cost == RMul(RMul(GetGridRate(cfg, hour), deficit), h)
        generator_cost ==
            RMul(RMul(RMul(deficit, h), cfg.generator_fuel_consumption),
                 cfg.generator_fuel_cost)
    IN  IF RLt(grid_cost, generator_cost) /\ RLe(deficit, cfg.generator_max_power)
        THEN [flows EXCEPT !.generator_power_kw = RMin(deficit, cfg.generator_max_power),
                           !.generator_ran = TRUE]
        ELSE [flows EXCEPT !.grid_import_kw = deficit]

\* mutant: in mode grid_independence the generator serves every residual deficit
\* within its maximum power, whatever the cost
ArbitrateByMode(cfg, flows, deficit, hour, h) ==
    LET grid_cost == RMul(RMul(GetGridRate(cfg, hour), deficit), h)
        generator_cost ==
            RMul(RMul(RMul(deficit, h), cfg.generator_fuel_consumption),
                 cfg.generator_fuel_cost)
    IN  IF /\ \/ cfg.optimization_mode = "grid_independence"
              \/ RLt(generator_cost, grid_cost)
           /\ RLe(deficit, cfg.generator_max_power)
        THEN [flows EXCEPT !.generator_power_kw = RMin(deficit, cfg.generator_max_power),
                           !.generator_ran = TRUE]
        ELSE [flows EXCEPT !.grid_import_kw = deficit]

\* mutant: at equal cost the generator is chosen
ArbitrateTieToGenerator(cfg, flows, deficit, hour, h) ==
    LET grid_cost == RMul(RMul(GetGridRate(cfg, hour), deficit), h)
        generator_cost ==
            RMul(RMul(RMul(deficit, h), cfg.generator_fuel_consumption),
                 cfg.generator_fuel_cost)
    IN  IF RLe(generator_cost, grid_cost) /\ RLe(deficit, cfg.generator_max_power)
        THEN [flows EXCEPT !.generator_power_kw = RMin(deficit, cfg.generator_max_power),
                           !.generator_ran = TRUE]
        ELSE [flows EXCEPT !.grid_import_kw = deficit]

\* the grid-or-generator decision for a residual deficit > 0.01
Arbitrate(cfg, flows, deficit, hour, h) ==
    LET grid_cost == RMul(RMul(GetGridRate(cfg, hour), deficit), h)
        generator_cost ==
            RMul(RMul(RMul(deficit, h), cfg.generator_fuel_consumption),
                 cfg.generator_fuel_cost)
    IN  IF RLt(generator_cost, grid_cost) /\ RLe(deficit, cfg.generator_max_power)
        THEN [flows EXCEPT !.generator_power_kw = RMin(deficit, cfg.generator_max_power),
                           !.generator_ran = TRUE]
        ELSE [flows EXCEPT !.grid_import_kw = deficit]

\* mutant: the discharge is capped by the rate alone, not by the energy above min_soc
DeficitIgnoresFloor(cfg, net_energy_kw, current_soc, hour, h) ==
    LET deficit0 == RAbs(net_energy_kw)
        max_discharge_rate == cfg.battery_max_discharge_kw
        battery_discharge_kw ==
            IF RGt(max_discharge_rate, Zero) /\ RGt(deficit0, Zero)
            THEN RMin(max_discharge_rate, deficit0) ELSE Zero
        deficit == RSub(deficit0, battery_discharge_kw)
        flows == [NoFlow EXCEPT !.battery_discharge_kw = battery_discharge_kw]
    IN  IF RGt(deficit, Q(1, 100))
        THEN Arbitrate(cfg, flows, deficit, hour, h)
        ELSE flows

\* mutant: the whole deficit goes to the grid or the generator, the battery is
\* not asked
DeficitSkipsBattery(cfg, net_energy_kw, current_soc, hour, h) ==
    LET deficit == RAbs(net_energy_kw)
    IN  IF RGt(deficit, Q(1, 100))
        THEN Arbitrate(cfg, NoFlow, deficit, hour, h)
        ELSE NoFlow

\* branch net_energy_kw < 0
Deficit(cfg, net_energy_kw, current_soc, hour, h) ==
    LET deficit0 == RAbs(net_energy_kw)
        max_discharge_rate ==
            RMin(cfg.battery_max_discharge_kw, DischargeHeadroomKw(cfg, current_soc, h))
        battery_discharge_kw ==
            IF RGt(max_discharge_rate, Zero) /\ RGt(deficit0, Zero)
            THEN RMin(max_discharge_rate, deficit0) ELSE Zero
        deficit == RSub(deficit0, battery_discharge_kw)
        flows == [NoFlow EXCEPT !.battery_discharge_kw = battery_discharge_kw]
    IN  IF RGt(deficit, Q(1, 100))
        THEN Arbitrate(cfg, flows, deficit, hour, h)
        ELSE flows

\* mutant: the sign test is inverted, a deficit is treated as a surplus
DispatchSignSlip(cfg, solar_generation_kw, total_load_kw, current_soc, hour, h) ==
    LET net_energy_kw == RSub(solar_generation_kw, total_load_kw)
    IN  IF RLt(net_energy_kw, Zero)
        THEN Surplus(cfg, RAbs(net_energy_kw), current_soc, h)
        ELSE IF RGt(net_energy_kw, Zero)
             THEN Deficit(cfg, RNeg(net_energy_kw), current_soc, hour, h)
             ELSE NoFlow

\* the five flows of a slot
Dispatch(cfg, solar_generation_kw, total_load_kw, current_soc, hour, h) ==
    LET net_energy_kw == RSub(solar_generation_kw, total_load_kw)
    IN  IF RGt(net_energy_kw, Zero) THEN Surplus(cfg, net_energy_kw, current_soc, h)
        ELSE IF RLt(net_energy_kw, Zero)
             THEN Deficit(cfg, net_energy_kw, current_soc, hour, h)
             ELSE NoFlow

\* mutant: the stored energy is capped at max_soc but has no floor
ClampEnergyNoFloor(cfg, energy) ==
    RMin(RMul(cfg.battery_max_soc, cfg.battery_capacity_kwh), energy)

\* max(min_soc * capacity, min(max_soc * capacity, energy))
ClampEnergy(cfg, energy) ==
    RMax(RMul(cfg.battery_min_soc, cfg.battery_capacity_kwh),
         RMin(RMul(cfg.battery_max_soc, cfg.battery_capacity_kwh), energy))

\* battery_energy_kwh += (charge * eff - discharge / eff) * h, before the clamp
EnergyAfterFlows(cfg, battery_energy_kwh, flows, h) ==
    RAdd(battery_energy_kwh,
         RMul(RSub(RMul(flows.battery_charge_kw, cfg.battery_efficiency),
                   RDiv(flows.battery_discharge_kw, cfg.battery_efficiency)),
              h))

\* the stored energy after the slot
UpdateEnergy(cfg, battery_energy_kwh, flows, h) ==
    ClampEnergy(cfg, EnergyAfterFlows(cfg, battery_energy_kwh, flows, h))

-----------------------------------------------------------------------------
(* Per-device power-source attribution (generate_schedule, lines 192-277)  *)

\* solar_used .. generator_used
SourcesUsed(solar_generation_kw, total_load_kw, flows) ==
    LET solar_used == RMin(solar_generation_kw, total_load_kw)
        remaining_after_solar == RMax(Zero, RSub(total_load_kw, solar_used))
        battery_used == RMin(flows.battery_discharge_kw, remaining_after_solar)
        remaining_after_battery == RMax(Zero, RSub(remaining_after_solar, battery_used))
        grid_used == RMin(flows.grid_import_kw, remaining_after_battery)
        generator_used ==
            RMin(flows.generator_power_kw, RMax(Zero, RSub(remaining_after_battery, grid_used)))
    IN  [solar |-> solar_used, battery |-> battery_used,
         grid |-> grid_used, generator |-> generator_used]

\* the 'solar' block: a holds power_allocated, kw the device_power_kw left, src the label
AttrSolar(a, used) ==
    IF RLt(a.alloc.solar, used.solar)
    THEN LET remaining_solar == RSub(used.solar, a.alloc.solar)
         IN  IF RLe(a.kw, remaining_solar)
             THEN [a EXCEPT !.alloc.solar = RAdd(@, a.kw)]
             ELSE [a EXCEPT !.alloc.solar = RAdd(@, remaining_solar),
                            !.kw = RSub(@, remaining_solar)]
    ELSE a

\* the 'battery' block
AttrBattery(a, used) ==
    IF RGt(a.kw, Zero) /\ RLt(a.alloc.battery, used.battery)
    THEN LET remaining_battery == RSub(used.battery, a.alloc.battery)
             label == IF a.src = "solar" THEN "solar+battery" ELSE "battery"
         IN  IF RLe(a.kw, remaining_battery)
             THEN [a EXCEPT !.src = label, !.alloc.battery = RAdd(@, a.kw), !.kw = Zero]
             ELSE [a EXCEPT !.src = label,
                            !.alloc.battery = RAdd(@, remaining_battery),
                            !.kw = RSub(@, remaining_battery)]
    ELSE a

\* the 'grid' block
AttrGrid(a, used) ==
    IF RGt(a.kw, Zero) /\ RLt(a.alloc.grid, used.grid)
    THEN LET remaining_grid == RSub(used.grid, a.alloc.grid)
             label == IF a.src \in {"solar", "solar+battery"} THEN "solar+grid"
                      ELSE IF a.src = "battery" THEN "battery+grid" ELSE "grid"
         IN  IF RLe(a.kw, remaining_grid)
             THEN [a EXCEPT !.src = label, !.alloc.grid = RAdd(@, a.kw), !.kw = Zero]
             ELSE [a EXCEPT !.src = label,
                            !.alloc.grid = RAdd(@, remaining_grid),
                            !.kw = RSub(@, remaining_grid)]
    ELSE a

\* the 'generator' block
AttrGenerator(a, used) ==
    IF RGt(a.kw, Zero) /\ RLt(a.alloc.generator, used.generator)
    THEN [a EXCEPT !.src = "generator", !.alloc.generator = RAdd(@, a.kw)]
    ELSE a

\* the label of one device and the allocation after it
AttributeDevice(alloc, device, used) ==
    AttrGenerator(
        AttrGrid(
            AttrBattery(
                AttrSolar([alloc |-> alloc, kw |-> PowerKw(device), src |-> "solar"], used),
                used),
            used),
        used)

RECURSIVE DevicesWithSource(_, _, _)
\* devices_with_source, for the devices left to label
DevicesWithSource(alloc, devs, used) ==
    IF devs = <<>> THEN <<>>
    ELSE LET a == AttributeDevice(alloc, Head(devs), used)
             d == Head(devs)
         IN  <<[id |-> d.id, name |-> d.name,
                power_kw |-> Round(PowerKw(d), 100),
                power_source |-> a.src,
                is_irrigation_pump |-> IsIrrigationPump(d)]>>
             \o DevicesWithSource(a.alloc, Tail(devs), used)

NoAllocation == [solar |-> Zero, battery |-> Zero, grid |-> Zero, generator |-> Zero]

-----------------------------------------------------------------------------
(* Metrics (_calculate_metrics)                                            *)

NoTotals ==
    [solar_energy |-> Zero, load_energy |-> Zero, grid_import |-> Zero,
     grid_export |-> Zero, grid_export_revenue |-> Zero,
     generator_energy |-> Zero, generator_runtime |-> Zero]

\* mutant: a slot in which the generator runs counts for generator_min_runtime
\* when the slot is shorter
AccumulateMinRuntime(cfg, t, solar_generation_kw, total_load_kw, flows, h) ==
    [solar_energy |-> RAdd(t.solar_energy, RMul(solar_generation_kw, h)),
     load_energy |-> RAdd(t.load_energy, RMul(total_load_kw, h)),
     grid_import |-> RAdd(t.grid_import, RMul(flows.grid_import_kw, h)),
     grid_export |-> RAdd(t.grid_export, RMul(flows.grid_export_kw, h)),
     grid_export_revenue |->
        RAdd(t.grid_export_revenue,
             RMul(RMul(flows.grid_export_kw, h), cfg.grid_export_rate)),
     generator_energy |-> RAdd(t.generator_energy, RMul(flows.generator_power_kw, h)),
     generator_runtime |->
        IF flows.generator_ran
        THEN RAdd(t.generator_runtime, RMax(h, Q(cfg.generator_min_runtime, 60)))
        ELSE t.generator_runtime]

\* "Accumulate metrics" (lines 182-190, and line 169 for the runtime)
Accumulate(cfg, t, solar_generation_kw, total_load_kw, flows, h) ==
    [solar_energy |-> RAdd(t.solar_energy, RMul(solar_generation_kw, h)),
     load_energy |-> RAdd(t.load_energy, RMul(total_load_kw, h)),
     grid_import |-> RAdd(t.grid_import, RMul(flows.grid_import_kw, h)),
     grid_export |-> RAdd(t.grid_export, RMul(flows.grid_export_kw, h)),
     grid_export_revenue |->
        RAdd(t.grid_export_revenue,
             RMul(RMul(flows.grid_export_kw, h), cfg.grid_export_rate)),
     generator_energy |-> RAdd(t.generator_energy, RMul(flows.generator_power_kw, h)),
     generator_runtime |->
        IF flows.generator_ran THEN RAdd(t.generator_runtime, h) ELSE t.generator_runtime]

CalculateMetrics(cfg, t) ==
    LET total_energy == t.load_energy
        solar_utilization ==
            IF RGt(total_energy, Zero)
            THEN RMul(RDiv(t.solar_energy, RMax(total_energy, Q(1, 100))), I(100))
            ELSE Zero
        grid_cost == RMul(t.grid_import, cfg.grid_peak_rate)
        generator_cost ==
            RMul(RMul(t.generator_energy, cfg.generator_fuel_consumption),
                 cfg.generator_fuel_cost)
        total_cost == RSub(RAdd(grid_cost, generator_cost), t.grid_export_revenue)
        baseline_cost == RMul(total_energy, cfg.grid_peak_rate)
        cost_savings == RSub(baseline_cost, total_cost)
        carbon_reduction == RMul(RAdd(t.solar_energy, t.grid_export), Q(1, 2))
        grid_reduction ==
            RMul(RDiv(RSub(total_energy, t.grid_import), RMax(total_energy, Q(1, 100))),
                 I(100))
    IN  [solar_utilization_percent |-> Round(solar_utilization, 100),
         grid_import_reduction_percent |-> Round(grid_reduction, 100),
         estimated_cost_savings |-> Round(cost_savings, 100),
         battery_cycle_efficiency |-> Round(RMul(cfg.battery_efficiency, I(100)), 100),
         carbon_footprint_reduction_kg |-> Round(carbon_reduction, 100),
         generator_runtime_minutes |-> Round(RMul(t.generator_runtime, I(60)), 10),
         total_energy_kwh |-> Round(total_energy, 100),
         solar_energy_kwh |-> Round(t.solar_energy, 100),
         grid_energy_kwh |-> Round(t.grid_import, 100),
         grid_export_energy_kwh |-> Round(t.grid_export, 100),
         grid_export_revenue |-> Round(t.grid_export_revenue, 100),
         battery_energy_kwh |->
            Round(RSub(RAdd(RAdd(RSub(t.solar_energy, t.load_energy), t.grid_import),
                            t.generator_energy),
                       t.grid_export), 100),
         generator_energy_kwh |-> Round(t.generator_energy, 100)]

-----------------------------------------------------------------------------
(* One iteration of the slot loop (generate_schedule, lines 90-291)        *)

\* mutant: a negative forecast mean is used as it is
ClampSolarKeepsNegative(mean) == mean

\* solar_generation_kw: the forecast mean, negative values replaced by 0.0
ClampSolar(mean) == IF RLt(mean, Zero) THEN Zero ELSE mean

\* everything one iteration computes from the state it starts in
SlotOutcome(cfg, sorted, forecast_point, current_soc, battery_energy_kwh, time_slot_minutes) ==
    LET hour == forecast_point.hour
        solar_generation_kw == ClampSolar(forecast_point.mean)
        h == SlotDurationHours(time_slot_minutes)
        selected == SelectDevicesForSlot(cfg, sorted, hour, forecast_point.mean,
                                         current_soc, solar_generation_kw)
        total_load_kw == SumPowerKw(selected)
        flows == Dispatch(cfg, solar_generation_kw, total_load_kw, current_soc, hour, h)
        unclamped == EnergyAfterFlows(cfg, battery_energy_kwh, flows, h)
        energy == UpdateEnergy(cfg, battery_energy_kwh, flows, h)
        soc == RDiv(energy, cfg.battery_capacity_kwh)
        used == SourcesUsed(solar_generation_kw, total_load_kw, flows)
    IN  [selected |-> selected,
         solar_generation_kw |-> solar_generation_kw,
         total_load_kw |-> total_load_kw,
         flows |-> flows,
         unclamped_energy_kwh |-> unclamped,
         battery_energy_kwh |-> energy,
         current_soc |-> soc,
         soc_before |-> current_soc,
         energy_before |-> battery_energy_kwh,
         slot |->
            [time |-> hour,
             solar_generation_kw |-> Round(solar_generation_kw, 100),
             total_load_kw |-> Round(total_load_kw, 100),
             battery_charge_kw |-> Round(flows.battery_charge_kw, 100),
             battery_discharge_kw |-> Round(flows.battery_discharge_kw, 100),
             battery_soc |-> Round(soc, 1000),
             grid_import_kw |-> Round(flows.grid_import_kw, 100),
             grid_export_kw |-> Round(flows.grid_export_kw, 100),
             generator_power_kw |-> Round(flows.generator_power_kw, 100),
             devices |-> DevicesWithSource(NoAllocation, selected, used)]]

-----------------------------------------------------------------------------
(* Inputs                                                                  *)

\* longest forecast series
MaxSlots == 3

\* SchedulerEngine.__init__: the fields read from config
BaseConfig ==
    [capacity_kw |-> I(50),
     battery_capacity_kwh |-> I(4),
     battery_max_charge_kw |-> I(2),
     battery_max_discharge_kw |-> I(2),
     battery_efficiency |-> Q(9, 10),
     battery_min_soc |-> Q(2, 10),
     battery_max_soc |-> Q(9, 10),
     grid_peak_rate |-> I(10),
     grid_off_peak_rate |-> I(5),
     grid_peak_hours |-> [start |-> 8, end |-> 20],
     grid_export_rate |-> I(4),
     grid_export_enabled |-> TRUE,
     generator_fuel_cost |-> I(80),
     generator_fuel_consumption |-> Q(1, 4),
     generator_max_power |-> I(2),
     generator_min_runtime |-> 60,
     optimization_mode |-> "cost",
     safety_margin |-> Q(1, 10)]

\* the base configuration and the ones that differ from it in one field:
\* a lossless battery, export disabled, a generator cheaper than the peak rate,
\* an array whose half capacity lies above the 20 kW floor and above the supply
Configs ==
    {BaseConfig,
     [BaseConfig EXCEPT !.battery_efficiency = I(1)],
     [BaseConfig EXCEPT !.grid_export_enabled = FALSE],
     [BaseConfig EXCEPT !.generator_fuel_cost = I(20)],
     [BaseConfig EXCEPT !.capacity_kw = I(100)]}

Lights   == Device(1, "Lights", "essential", 1000, 1, TRUE, NoWindow)
Server   == Device(2, "Server", "essential", 2000, 1, FALSE, NoWindow)
Sprayer  == Device(3, "Irrigation Pump", "irrigation", 2000, 1, TRUE, NoWindow)
DripLine == Device(4, "Drip Line", "irrigation", 5000, 3, TRUE, NoWindow)
Heater   == Device(5, "Heater", "flexible", 2000, 3, TRUE, Window(8, 10))
Fan      == Device(6, "Fan", "optional", 1000, 1, TRUE, NoWindow)
WellPump == Device(7, "Well Pump", "essential", 1000, 2, TRUE, NoWindow)
Kiln     == Device(8, "Kiln", "flexible", 3000, 2, TRUE, Window(8, 9))
Mister   == Device(9, "Mister", "optional", 3000, 1, TRUE, NoWindow)
Chiller  == Device(10, "Chiller", "optional", 3000, 1, TRUE, NoWindow)
PoolPump == Device(11, "Pool Pump", "flexible", 2000, 1, TRUE, NoWindow)
Canal    == Device(12, "Canal Lift", "irrigation", 40000, 1, TRUE, NoWindow)

Catalogs ==
    {<<>>, <<Lights>>, <<Server>>, <<Sprayer>>, <<DripLine, Lights>>,
     <<Fan, Heater, Lights>>, <<WellPump>>,
     <<Mister, Chiller, Kiln, Fan>>, <<Canal, PoolPump>>}

SupplyValues == {I(-1), I(0), I(5), I(30)}

\* forecast points at consecutive hours from 07:00, one per slot
SeriesOver(values) ==
    UNION {{[i \in 1..n |-> [hour |-> 6 + i, mean |-> m[i]]] : m \in [1..n -> values]} :
           n \in 0..MaxSlots}

ForecastSeries == SeriesOver(SupplyValues)

\* the series with the given supply values, in this order
SeriesFrom(means) == [i \in DOMAIN means |-> [hour |-> 6 + i, mean |-> means[i]]]

\* the series used when the same call is made twice
RepeatSeries == SeriesOver({I(0), I(5)})

InitialSocs == {Q(1, 10), Q(2, 10), Q(3, 10), Q(5, 10), I(1)}

TimeSlotMinutes == {30}

-----------------------------------------------------------------------------
(* State                                                                   *)

VARIABLES
    config,               \* the engine's fields, set by __init__
    pc,                   \* "idle", "running" (inside generate_schedule), "returned"
    forecast_data, devices, initial_battery_soc, time_slot_minutes,  \* the call's arguments
    sorted_devices, idx, schedule, current_soc, battery_energy_kwh, totals,  \* its locals
    result,               \* the dictionary the last call returned
    calls,                \* calls completed on this engine
    first_result,         \* what the first call returned
    trace,                \* per slot, the unrounded values the iteration computed
    engines,              \* the fields of the engines that concurrent callers use
    caller_lists,         \* the callers' forecast and device lists, passed by reference
    call,                 \* per concurrent invocation: position, arguments, result
    frame                 \* per invocation frame: the locals of generate_schedule

args == <<forecast_data, devices, initial_battery_soc, time_slot_minutes>>
locals == <<sorted_devices, idx, schedule, current_soc, battery_energy_kwh, totals, trace>>
concurrent == <<engines, caller_lists, call, frame>>
vars == <<config, pc, args, locals, result, calls, first_result, concurrent>>

NoResult == [schedule |-> <<>>, metrics |-> "none", initial_battery_soc |-> "none",
             final_battery_soc |-> "none"]

\* the invocations that may overlap, the engines and the caller-owned lists
Invocations == {1, 2}
EngineIds == {1, 2}
ListIds == {1, 2}

\* engine 1 exports its surplus, engine 2 does not
Engines ==
    [e \in EngineIds |->
        IF e = 1 THEN BaseConfig ELSE [BaseConfig EXCEPT !.grid_export_enabled = FALSE]]

CallerLists ==
    [forecast |-> <<SeriesFrom(<<I(5), I(0)>>), SeriesFrom(<<I(0), I(30), I(5)>>)>>,
     devices |-> <<(<<DripLine, Lights>>), (<<Fan, Heater, Lights>>)>>]

ConcurrentSocs == {Q(3, 10), Q(5, 10)}

IdleCall ==
    [pc |-> "idle", engine |-> 0, forecast |-> 0, devices |-> 0,
     initial_battery_soc |-> Zero, time_slot_minutes |-> 0,
     overlapped |-> FALSE, result |-> NoResult]

NoFrame ==
    [sorted_devices |-> <<>>, idx |-> 0, schedule |-> <<>>, current_soc |-> Zero,
     battery_energy_kwh |-> Zero, totals |-> NoTotals]

Init ==
    /\ config \in Configs
    /\ pc = "idle"
    /\ forecast_data = <<>>
    /\ devices = <<>>
    /\ initial_battery_soc = Zero
    /\ time_slot_minutes = 0
    /\ sorted_devices = <<>>
    /\ idx = 0
    /\ schedule = <<>>
    /\ current_soc = Zero
    /\ battery_energy_kwh = Zero
    /\ totals = NoTotals
    /\ trace = <<>>
    /\ result = NoResult
    /\ calls = 0
    /\ first_result = NoResult
    /\ engines = Engines
    /\ caller_lists = CallerLists
    /\ call = [p \in Invocations |-> IdleCall]
    /\ frame = [p \in Invocations |-> NoFrame]

\* mutant: the SOC is kept on the engine, a later call starts from the last final SOC
StartSocKept(initial_soc, previous_result) ==
    IF previous_result.final_battery_soc = "none" THEN initial_soc
    ELSE previous_result.final_battery_soc

\* current_soc = initial_battery_soc (line 77)
StartSoc(initial_soc, previous_result) == initial_soc

\* lines 63-88: the locals at the top of the loop
Enter(fc, devs, soc0, tsm) ==
    /\ forecast_data' = fc
    /\ devices' = devs
    /\ initial_battery_soc' = soc0
    /\ time_slot_minutes' = tsm
    /\ sorted_devices' = SortedDevices(devs)
    /\ idx' = 0
    /\ schedule' = <<>>
    /\ current_soc' = StartSoc(soc0, result)
    /\ battery_energy_kwh' = RMul(StartSoc(soc0, result), config.battery_capacity_kwh)
    /\ totals' = NoTotals
    /\ trace' = <<>>
    /\ pc' = "running"
    /\ UNCHANGED <<config, result, calls, first_result, concurrent>>

\* a caller invokes generate_schedule
Generate ==
    /\ pc = "idle"
    /\ \E fc \in ForecastSeries, devs \in Catalogs, soc0 \in InitialSocs,
          tsm \in TimeSlotMinutes :
          Enter(fc, devs, soc0, tsm)

\* the first of two identical calls
GenerateFirst ==
    /\ pc = "idle"
    /\ \E fc \in RepeatSeries, devs \in Catalogs, soc0 \in InitialSocs,
          tsm \in TimeSlotMinutes :
          Enter(fc, devs, soc0, tsm)

\* the caller invokes generate_schedule again with the same arguments
GenerateAgain ==
    /\ pc = "returned"
    /\ calls = 1
    /\ Enter(forecast_data, devices, initial_battery_soc, time_slot_minutes)

\* mutant: every iteration starts from the caller's initial SOC
ProcessSlotFromInitialSoc ==
    /\ pc = "running"
    /\ idx < Len(forecast_data)
    /\ \E o \in {SlotOutcome(config, sorted_devices, forecast_data[idx + 1],
                            initial_battery_soc, battery_energy_kwh,
                            time_slot_minutes)} :
           /\ battery_energy_kwh' = o.battery_energy_kwh
           /\ current_soc' = o.current_soc
           /\ totals' = Accumulate(config, totals, o.solar_generation_kw, o.total_load_kw,
                                   o.flows, SlotDurationHours(time_slot_minutes))
           /\ schedule' = Append(schedule, o.slot)
           /\ trace' = Append(trace, [selected |-> o.selected,
                                      solar_generation_kw |-> o.solar_generation_kw,
                                      total_load_kw |-> o.total_load_kw,
                                      flows |-> o.flows,
                                      soc_before |-> o.soc_before,
                                      energy_before |-> o.energy_before,
                                      unclamped_energy_kwh |-> o.unclamped_energy_kwh,
                                      battery_energy_kwh |-> o.battery_energy_kwh,
                                      current_soc |-> o.current_soc])
    /\ idx' = idx + 1
    /\ UNCHANGED <<config, pc, args, sorted_devices, result, calls, first_result,
                   concurrent>>

\* one iteration of "for idx, forecast_point in enumerate(forecast_data)"
ProcessSlot ==
    /\ pc = "running"
    /\ idx < Len(forecast_data)
    /\ \E o \in {SlotOutcome(config, sorted_devices, forecast_data[idx + 1],
                            current_soc, battery_energy_kwh, time_slot_minutes)} :
           /\ battery_energy_kwh' = o.battery_energy_kwh
           /\ current_soc' = o.current_soc
           /\ totals' = Accumulate(config, totals, o.solar_generation_kw, o.total_load_kw,
                                   o.flows, SlotDurationHours(time_slot_minutes))
           /\ schedule' = Append(schedule, o.slot)
           /\ trace' = Append(trace, [selected |-> o.selected,
                                      solar_generation_kw |-> o.solar_generation_kw,
                                      total_load_kw |-> o.total_load_kw,
                                      flows |-> o.flows,
                                      soc_before |-> o.soc_before,
                                      energy_before |-> o.energy_before,
                                      unclamped_energy_kwh |-> o.unclamped_energy_kwh,
                                      battery_energy_kwh |-> o.battery_energy_kwh,
                                      current_soc |-> o.current_soc])
    /\ idx' = idx + 1
    /\ UNCHANGED <<config, pc, args, sorted_devices, result, calls, first_result,
                   concurrent>>

\* mutant: the SOC returned as final is the one the run started with
ReturnStartSoc ==
    /\ pc = "running"
    /\ idx = Len(forecast_data)
    /\ result' = [schedule |-> schedule,
                  metrics |-> CalculateMetrics(config, totals),
                  initial_battery_soc |-> initial_battery_soc,
                  final_battery_soc |-> initial_battery_soc]
    /\ calls' = calls + 1
    /\ first_result' = IF calls = 0 THEN result' ELSE first_result
    /\ pc' = "returned"
    /\ UNCHANGED <<config, args, locals, concurrent>>

\* lines 293-310: the loop is over, metrics are computed and the result returned
Return ==
    /\ pc = "running"
    /\ idx = Len(forecast_data)
    /\ result' = [schedule |-> schedule,
                  metrics |-> CalculateMetrics(config, totals),
                  initial_battery_soc |-> initial_battery_soc,
                  final_battery_soc |-> current_soc]
    /\ calls' = calls + 1
    /\ first_result' = IF calls = 0 THEN result' ELSE first_result
    /\ pc' = "returned"
    /\ UNCHANGED <<config, args, locals, concurrent>>

Next == Generate \/ ProcessSlot \/ Return

\* one call of generate_schedule on a fresh engine
Spec == Init /\ [][Next]_vars

NextRepeat == GenerateFirst \/ GenerateAgain \/ ProcessSlot \/ Return

\* two calls with the same arguments on one engine
SpecRepeat == Init /\ [][NextRepeat]_vars

\* the for loop has a forecast point left: what a ProcessSlot step does to idx
LoopAdvances == pc = "running" /\ idx < Len(forecast_data) /\ idx' = idx + 1

\* the for loop is over: what a Return step does to pc
LoopEnds == pc = "running" /\ idx = Len(forecast_data) /\ pc' = "returned"

\* the loop body and the return neither block nor wait (no I/O, no lock, no
\* suspension): a call that has started takes its next iteration, and returns
\* once the loop is over.  ProcessSlot is the only step that advances idx and
\* Return the only one that sets pc to "returned"
SpecRepeatFair == SpecRepeat /\ WF_idx(LoopAdvances) /\ WF_pc(LoopEnds)

-----------------------------------------------------------------------------
(* Overlapping invocations of generate_schedule                            *)

\* mutant: the run state is kept on the engine (self.current_soc, self.schedule,
\* ...), so two invocations on one engine work on the same cells
FrameOnEngine(p, e) == e

\* schedule, current_soc, battery_energy_kwh, the totals, idx and sorted_devices
\* are local variables: each invocation has a frame of its own
Frame(p, e) == p

\* a caller enters generate_schedule (lines 63-88)
CallStart(p) ==
    /\ call[p].pc = "idle"
    /\ \E e \in EngineIds, f \in ListIds, d \in ListIds, soc0 \in ConcurrentSocs,
          tsm \in TimeSlotMinutes :
          /\ call' = [call EXCEPT ![p] =
                         [pc |-> "running", engine |-> e, forecast |-> f, devices |-> d,
                          initial_battery_soc |-> soc0, time_slot_minutes |-> tsm,
                          overlapped |-> FALSE, result |-> NoResult]]
          /\ frame' = [frame EXCEPT ![Frame(p, e)] =
                          [sorted_devices |-> SortedDevices(caller_lists.devices[d]),
                           idx |-> 0,
                           schedule |-> <<>>,
                           current_soc |-> soc0,
                           battery_energy_kwh |->
                               RMul(soc0, engines[e].battery_capacity_kwh),
                           totals |-> NoTotals]]
    /\ UNCHANGED <<config, pc, args, locals, result, calls, first_result,
                   engines, caller_lists>>

\* one iteration of the loop of invocation p (lines 90-291), reading the engine's
\* fields and the caller's forecast list as they are now
CallStep(p) ==
    /\ call[p].pc = "running"
    /\ LET c == call[p]
           cell == Frame(p, call[p].engine)
           f == frame[Frame(p, call[p].engine)]
           fc == caller_lists.forecast[call[p].forecast]
       IN  /\ f.idx < Len(fc)
           /\ \E o \in {SlotOutcome(engines[c.engine], f.sorted_devices, fc[f.idx + 1],
                                   f.current_soc, f.battery_energy_kwh,
                                   c.time_slot_minutes)} :
                  frame' = [frame EXCEPT ![cell] =
                               [sorted_devices |-> f.sorted_devices,
                                idx |-> f.idx + 1,
                                schedule |-> Append(f.schedule, o.slot),
                                current_soc |-> o.current_soc,
                                battery_energy_kwh |-> o.battery_energy_kwh,
                                totals |->
                                    Accumulate(engines[c.engine], f.totals,
                                               o.solar_generation_kw, o.total_load_kw,
                                               o.flows,
                                               SlotDurationHours(c.time_slot_minutes))]]
    /\ call' = [call EXCEPT ![p].overlapped =
                   @ \/ \E q \in Invocations \ {p} : call[q].pc = "running"]
    /\ UNCHANGED <<config, pc, args, locals, result, calls, first_result,
                   engines, caller_lists>>

\* invocation p leaves the loop and returns (lines 293-310)
CallReturn(p) ==
    /\ call[p].pc = "running"
    /\ LET c == call[p]
           f == frame[Frame(p, call[p].engine)]
       IN  /\ f.idx = Len(caller_lists.forecast[c.forecast])
           /\ call' = [call EXCEPT
                          ![p].pc = "returned",
                          ![p].result =
                              [schedule |-> f.schedule,
                               metrics |-> CalculateMetrics(engines[c.engine], f.totals),
                               initial_battery_soc |-> c.initial_battery_soc,
                               final_battery_soc |-> f.current_soc]]
    /\ UNCHANGED <<config, pc, args, locals, result, calls, first_result,
                   engines, caller_lists, frame>>

InitConcurrent == Init /\ config = BaseConfig

NextConcurrent == \E p \in Invocations : CallStart(p) \/ CallStep(p) \/ CallReturn(p)

\* two invocations whose steps interleave in any order
SpecConcurrent == InitConcurrent /\ [][NextConcurrent]_vars

RECURSIVE RunFrom(_, _, _, _, _, _)
\* the loop of one invocation run without interruption from forecast point k on;
\* st holds schedule, current_soc, battery_energy_kwh and the totals
RunFrom(cfg, sorted, fc, tsm, k, st) ==
    IF k > Len(fc) THEN st
    ELSE CHOOSE r \in
             {RunFrom(cfg, sorted, fc, tsm, k + 1,
                      [schedule |-> Append(st.schedule, o.slot),
                       current_soc |-> o.current_soc,
                       battery_energy_kwh |-> o.battery_energy_kwh,
                       totals |-> Accumulate(cfg, st.totals, o.solar_generation_kw,
                                             o.total_load_kw, o.flows,
                                             SlotDurationHours(tsm))]) :
              o \in {SlotOutcome(cfg, sorted, fc[k], st.current_soc,
                                 st.battery_energy_kwh, tsm)}} : TRUE

\* what generate_schedule returns when the invocation runs alone
RunAlone(cfg, fc, devs, soc0, tsm) ==
    LET st == RunFrom(cfg, SortedDevices(devs), fc, tsm, 1,
                      [schedule |-> <<>>, current_soc |-> soc0,
                       battery_energy_kwh |-> RMul(soc0, cfg.battery_capacity_kwh),
                       totals |-> NoTotals])
    IN  [schedule |-> st.schedule,
         metrics |-> CalculateMetrics(cfg, st.totals),
         initial_battery_soc |-> soc0,
         final_battery_soc |-> st.current_soc]

-----------------------------------------------------------------------------
(* Properties                                                              *)

\* the slots committed so far
Slots == DOMAIN schedule

\* C1: after every slot the recorded battery_soc, and the SOC carried to the
\* next slot, lie in [battery_min_soc, battery_max_soc], whatever the initial SOC
C1_SocWithinBounds ==
    \A i \in Slots :
        /\ RLe(config.battery_min_soc, schedule[i].battery_soc)
        /\ RLe(schedule[i].battery_soc, config.battery_max_soc)
        /\ RLe(config.battery_min_soc, trace[i].current_soc)
        /\ RLe(trace[i].current_soc, config.battery_max_soc)

\* a run that started above max_soc, and one slot later is at max_soc
C1_Witness ==
    /\ Len(schedule) >= 1
    /\ RGt(initial_battery_soc, config.battery_max_soc)
    /\ trace[1].soc_before = initial_battery_soc
    /\ schedule[1].battery_soc = config.battery_max_soc

\* what the slot record states about the balance: sources minus sinks
Imbalance(slot) ==
    RSub(RAdd(RAdd(RAdd(slot.solar_generation_kw, slot.battery_discharge_kw),
                   slot.grid_import_kw), slot.generator_power_kw),
         RAdd(RAdd(slot.total_load_kw, slot.battery_charge_kw), slot.grid_export_kw))

\* seven figures rounded to 0.01 and a residual of at most 0.01 left unserved
Tolerance == Q(5, 100)

Within(x) == RLe(RAbs(x), Tolerance)

\* the caller's initial SOC lies in [battery_min_soc, battery_max_soc]
StartsInRange ==
    /\ RLe(config.battery_min_soc, initial_battery_soc)
    /\ RLe(initial_battery_soc, config.battery_max_soc)

\* C2 as stated, on the runs that start inside [min_soc, max_soc]: the recorded
\* figures of every slot balance, export enabled or not
C2_EnergyConserved ==
    StartsInRange => \A i \in Slots : Within(Imbalance(schedule[i]))

\* the surplus a slot throws away: what is left after charging when it is not exported
Discarded(i) ==
    IF RGt(trace[i].flows.remaining_excess, Zero) /\ trace[i].flows.grid_export_kw = Zero
    THEN trace[i].flows.remaining_excess ELSE Zero

\* C2 amended: the figures balance once the discarded surplus is counted as a
\* sink; with export enabled nothing above the 0.01 threshold is discarded
C2_EnergyConservedWithDiscard ==
    \A i \in Slots :
        /\ Within(RSub(Imbalance(schedule[i]), Discarded(i)))
        /\ config.grid_export_enabled => Within(Imbalance(schedule[i]))

\* a slot with export disabled whose surplus exceeds what the battery takes
C2_Witness ==
    \E i \in Slots :
        /\ ~config.grid_export_enabled
        /\ RGt(schedule[i].battery_charge_kw, Zero)
        /\ RGt(Discarded(i), I(1))

\* C3: every active essential device of the catalog is in every slot's selection
C3_EssentialAlwaysSelected ==
    \A i \in Slots :
        \A k \in DOMAIN devices :
            (devices[k].is_active /\ devices[k].device_type = "essential") =>
                /\ devices[k] \in Range(trace[i].selected)
                /\ \E j \in DOMAIN schedule[i].devices :
                       schedule[i].devices[j].id = devices[k].id

\* an essential device selected with no supply and the battery at its floor
C3_Witness ==
    \E i \in Slots :
        /\ trace[i].solar_generation_kw = Zero
        /\ RLe(trace[i].soc_before, config.battery_min_soc)
        /\ \E k \in DOMAIN devices :
               /\ devices[k].device_type = "essential"
               /\ devices[k] \in Range(trace[i].selected)
        /\ RGt(trace[i].flows.grid_import_kw, Zero)

\* C4: the battery flows never exceed the configured rates
C4_RateLimits ==
    \A i \in Slots :
        /\ RLe(trace[i].flows.battery_charge_kw, config.battery_max_charge_kw)
        /\ RLe(trace[i].flows.battery_discharge_kw, config.battery_max_discharge_kw)
        /\ RLe(schedule[i].battery_charge_kw, config.battery_max_charge_kw)
        /\ RLe(schedule[i].battery_discharge_kw, config.battery_max_discharge_kw)

\* a surplus larger than the charge rate, charged at exactly the rate
C4_Witness ==
    \E i \in Slots :
        /\ RGt(RSub(trace[i].solar_generation_kw, trace[i].total_load_kw),
               config.battery_max_charge_kw)
        /\ schedule[i].battery_charge_kw = config.battery_max_charge_kw

\* C5: charge and discharge are never both positive; a surplus slot does not
\* discharge and a deficit slot does not charge
C5_NoSimultaneousFlows ==
    \A i \in Slots :
        /\ ~(RGt(schedule[i].battery_charge_kw, Zero)
             /\ RGt(schedule[i].battery_discharge_kw, Zero))
        /\ RGt(trace[i].solar_generation_kw, trace[i].total_load_kw) =>
               /\ trace[i].flows.battery_discharge_kw = Zero
               /\ schedule[i].battery_discharge_kw = Zero
        /\ RLt(trace[i].solar_generation_kw, trace[i].total_load_kw) =>
               /\ trace[i].flows.battery_charge_kw = Zero
               /\ schedule[i].battery_charge_kw = Zero

\* a run with a charging slot followed by a discharging slot
C5_Witness ==
    \E i, j \in Slots :
        /\ i < j
        /\ RGt(schedule[i].battery_charge_kw, Zero)
        /\ RGt(schedule[j].battery_discharge_kw, Zero)

\* C6: the second of two calls with the same arguments on one engine returns
\* what the first returned: schedule, metrics, initial and final SOC
C6_RepeatedCallSameResult ==
    (pc = "returned" /\ calls = 2) => result = first_result

\* a second call over a full-length forecast that moved the battery has returned
C6_Witness ==
    /\ pc = "returned"
    /\ calls = 2
    /\ Len(result.schedule) = MaxSlots
    /\ result.final_battery_soc # result.initial_battery_soc

\* the inputs for which the specification asks for a ConfigurationError
BadInput ==
    \/ forecast_data = <<>>
    \/ ActiveDevices(devices) = <<>>
    \/ RGe(config.battery_min_soc, config.battery_max_soc)

\* C7 as stated: on such inputs a call processes no slot and returns no result
C7_ConfigurationErrorReported ==
    (pc # "idle" /\ BadInput) => (schedule = <<>> /\ result = NoResult)

\* C8 as stated: a slot whose forecast value is negative is recorded, selects and
\* leaves the battery exactly as the same slot with a forecast value of 0 would
C8_NegativeSupplyAsZero ==
    \A i \in Slots :
        RLt(forecast_data[i].mean, Zero) =>
            \A z \in {SlotOutcome(config, sorted_devices,
                                  [forecast_data[i] EXCEPT !.mean = Zero],
                                  trace[i].soc_before, trace[i].energy_before,
                                  time_slot_minutes)} :
                /\ schedule[i].solar_generation_kw = Zero
                /\ schedule[i] = z.slot
                /\ trace[i].selected = z.selected
                /\ trace[i].flows = z.flows
                /\ trace[i].current_soc = z.current_soc

\* Scenario A: one active essential 1 kW device, three slots of 0 kW, initial SOC = min_soc
ScenarioA ==
    /\ devices = <<Lights>>
    /\ Len(forecast_data) = 3
    /\ \A i \in DOMAIN forecast_data : forecast_data[i].mean = Zero
    /\ initial_battery_soc = config.battery_min_soc

\* C9 as stated: in Scenario A every slot imports 1.0 kW, discharges nothing and
\* leaves the SOC where it started
C9_ScenarioA ==
    ScenarioA =>
        \A i \in Slots :
            /\ schedule[i].battery_discharge_kw = Zero
            /\ schedule[i].grid_import_kw = I(1)
            /\ schedule[i].battery_soc = initial_battery_soc

\* a kWh from the generator costs less than one from the grid at this hour
GeneratorCheaperPerKwh(hour) ==
    RLt(RMul(config.generator_fuel_consumption, config.generator_fuel_cost),
        GetGridRate(config, hour))

\* C9 amended: in Scenario A every slot discharges nothing and leaves the SOC
\* where it started; the 1 kW comes from the grid, except in a slot where the
\* generator is cheaper per kWh than the grid rate of that hour and 1 kW is within
\* generator_max_power_kw: there the generator gives the 1 kW and the import is 0
C9_ScenarioAByCost ==
    ScenarioA =>
        \A i \in Slots :
            /\ schedule[i].battery_discharge_kw = Zero
            /\ schedule[i].battery_soc = initial_battery_soc
            /\ IF /\ GeneratorCheaperPerKwh(schedule[i].time)
                  /\ RLe(I(1), config.generator_max_power)
               THEN /\ schedule[i].generator_power_kw = I(1)
                    /\ schedule[i].grid_import_kw = Zero
               ELSE /\ schedule[i].grid_import_kw = I(1)
                    /\ schedule[i].generator_power_kw = Zero

\* Scenario A has run to its end, one slot on the grid and one on the generator
C9_Witness ==
    /\ ScenarioA
    /\ pc = "returned"
    /\ Len(schedule) = 3
    /\ \E i, j \in Slots :
           /\ schedule[i].grid_import_kw = I(1)
           /\ schedule[j].generator_power_kw = I(1)

\* Scenario B: one active essential 1 kW device, three slots of 5 kW, a charge
\* rate of 2 kW, the initial SOC in mid-range, export disabled
ScenarioB ==
    /\ devices = <<Lights>>
    /\ Len(forecast_data) = 3
    /\ \A i \in DOMAIN forecast_data : forecast_data[i].mean = I(5)
    /\ config.battery_max_charge_kw = I(2)
    /\ initial_battery_soc = Q(1, 2)
    /\ ~config.grid_export_enabled

\* C10: in Scenario B no slot exports, imports, runs the generator or discharges;
\* a slot charges 2 kW and discards 2 kW as long as the headroom to max_soc allows
\* 2 kW, and from then on charges what the headroom allows and discards the rest
C10_ScenarioB ==
    ScenarioB =>
        \A i \in Slots :
            /\ schedule[i].grid_export_kw = Zero
            /\ schedule[i].grid_import_kw = Zero
            /\ schedule[i].generator_power_kw = Zero
            /\ schedule[i].battery_discharge_kw = Zero
            /\ Discarded(i) = RSub(I(4), trace[i].flows.battery_charge_kw)
            /\ IF RGe(ChargeHeadroomKw(config, trace[i].soc_before,
                                       SlotDurationHours(time_slot_minutes)), I(2))
               THEN /\ schedule[i].battery_charge_kw = I(2)
                    /\ Discarded(i) = I(2)
               ELSE /\ trace[i].flows.battery_charge_kw =
                          ChargeHeadroomKw(config, trace[i].soc_before,
                                           SlotDurationHours(time_slot_minutes))
                    /\ RLt(schedule[i].battery_charge_kw, I(2))

\* Scenario B has run to its end: 2 kW charged at first, less once max_soc is near
C10_Witness ==
    /\ ScenarioB
    /\ pc = "returned"
    /\ Len(schedule) = 3
    /\ schedule[1].battery_charge_kw = I(2)
    /\ Discarded(1) = I(2)
    /\ RLt(schedule[3].battery_charge_kw, I(2))

\* Scenario C: an active irrigation device in the catalog, a positive supply in
\* slot 1, a supply in slot 2 at least 30% lower, initial SOC 0.3
ScenarioC ==
    /\ \E k \in DOMAIN devices :
           devices[k].is_active /\ devices[k].device_type = "irrigation"
    /\ Len(forecast_data) >= 2
    /\ RGt(forecast_data[1].mean, Zero)
    /\ RLe(forecast_data[2].mean, RMul(forecast_data[1].mean, Q(7, 10)))
    /\ initial_battery_soc = Q(3, 10)

\* C11 as stated: in Scenario C no irrigation device is in slot 1's selection, and
\* slot 2's selection is the one its own supply, forecast and SOC give
C11_ScenarioC ==
    ScenarioC =>
        /\ Len(schedule) >= 1 =>
               \A d \in Range(trace[1].selected) : d.device_type # "irrigation"
        /\ Len(schedule) >= 2 =>
               trace[2].selected =
                   SelectDevicesForSlot(config, sorted_devices, forecast_data[2].hour,
                                        forecast_data[2].mean, trace[2].soc_before,
                                        trace[2].solar_generation_kw)

\* what slot i leaves to the grid or the generator: load - supply - discharge
ResidualDeficit(i) ==
    RSub(RSub(trace[i].total_load_kw, trace[i].solar_generation_kw),
         trace[i].flows.battery_discharge_kw)

\* a kWh from the generator costs less than one from the grid at the peak rate
GeneratorCheaperThanPeak ==
    RLt(RMul(config.generator_fuel_consumption, config.generator_fuel_cost),
        config.grid_peak_rate)

\* C12 as stated: with the generator cheaper per kWh than the peak rate, a slot
\* whose deficit is within generator_max_power_kw takes it all from the generator
C12_ScenarioD ==
    \A i \in Slots :
        (/\ GeneratorCheaperThanPeak
         /\ RGt(ResidualDeficit(i), Zero)
         /\ RLe(ResidualDeficit(i), config.generator_max_power)) =>
            /\ trace[i].flows.generator_power_kw = ResidualDeficit(i)
            /\ trace[i].flows.grid_import_kw = Zero

\* C12 amended: the rate that counts is the one of the slot's hour, and the
\* deficit is the one left after the battery, above the 0.01 kW threshold
C12_ScenarioDAtSlotRate ==
    \A i \in Slots :
        (/\ GeneratorCheaperPerKwh(schedule[i].time)
         /\ RGt(ResidualDeficit(i), Q(1, 100))
         /\ RLe(ResidualDeficit(i), config.generator_max_power)) =>
            /\ trace[i].flows.generator_power_kw = ResidualDeficit(i)
            /\ trace[i].flows.grid_import_kw = Zero
            /\ schedule[i].generator_power_kw = Round(ResidualDeficit(i), 100)
            /\ schedule[i].grid_import_kw = Zero

\* a peak-hour slot in which the battery gives what it can and the generator the
\* rest, after an off-peak slot of the same run that took its deficit from the grid
C12_Witness ==
    \E i, j \in Slots :
        /\ GeneratorCheaperPerKwh(schedule[i].time)
        /\ RGt(trace[i].flows.battery_discharge_kw, Zero)
        /\ RGt(trace[i].flows.generator_power_kw, Zero)
        /\ ~GeneratorCheaperPerKwh(schedule[j].time)
        /\ GeneratorCheaperThanPeak
        /\ RGt(trace[j].flows.grid_import_kw, Zero)

\* one record per forecast point consumed, in the forecast's order
OneSlotPerPoint ==
    /\ Len(schedule) = idx
    /\ idx <= Len(forecast_data)
    /\ \A i \in Slots :
           /\ schedule[i].time = forecast_data[i].hour
           /\ schedule[i].solar_generation_kw = Round(ClampSolar(forecast_data[i].mean), 100)

\* what a finished call hands back: every point has its record, the final SOC is
\* the one the last slot left, or the initial one when there was no slot
ReturnsLastSoc ==
    pc = "returned" =>
        /\ result.schedule = schedule
        /\ Len(result.schedule) = Len(forecast_data)
        /\ result.initial_battery_soc = initial_battery_soc
        /\ result.final_battery_soc =
               IF schedule = <<>> THEN initial_battery_soc
               ELSE trace[Len(trace)].current_soc
        /\ schedule # <<>> =>
               schedule[Len(schedule)].battery_soc = Round(result.final_battery_soc, 1000)

\* a step of a running call leaves the records written so far as they are and
\* adds at most one
NoRollback ==
    pc = "running" =>
        /\ Len(schedule') \in {Len(schedule), Len(schedule) + 1}
        /\ SubSeq(schedule', 1, Len(schedule)) = schedule
        /\ idx' >= idx

\* C13: a run commits one record per forecast point in order, never changes or
\* removes a committed record, ends once every point is consumed, and returns
\* the SOC left by the last committed slot
C13_LinearRun ==
    /\ [](OneSlotPerPoint /\ ReturnsLastSoc)
    /\ [][NoRollback]_vars
    /\ (pc = "running" ~> pc = "returned")

\* a call over a full-length forecast has returned a final SOC that differs from
\* the initial one
C13_Witness ==
    /\ pc = "returned"
    /\ calls = 1
    /\ Len(result.schedule) = MaxSlots
    /\ result.final_battery_soc # initial_battery_soc
    /\ result.final_battery_soc = trace[MaxSlots].current_soc

\* the charge that fills the battery as far as the rate and max_soc allow, from
\* the SOC slot i started with
FullCharge(i) ==
    RMin(config.battery_max_charge_kw,
         RDiv(RMul(RSub(config.battery_max_soc, trace[i].soc_before),
                   config.battery_capacity_kwh),
              Q(time_slot_minutes, 60)))

\* C14: a slot exports only with export enabled and with the battery charged at
\* min(max charge rate, headroom to max_soc); with export disabled no slot
\* exports and the export energy and revenue totals are 0
C14_ExportAfterCharging ==
    /\ \A i \in Slots :
           /\ (RGt(trace[i].flows.grid_export_kw, Zero)
               \/ RGt(schedule[i].grid_export_kw, Zero)) =>
                  /\ config.grid_export_enabled
                  /\ trace[i].flows.battery_charge_kw = FullCharge(i)
                  /\ schedule[i].battery_charge_kw = Round(FullCharge(i), 100)
           /\ ~config.grid_export_enabled =>
                  /\ trace[i].flows.grid_export_kw = Zero
                  /\ schedule[i].grid_export_kw = Zero
    /\ ~config.grid_export_enabled =>
           /\ totals.grid_export = Zero
           /\ totals.grid_export_revenue = Zero
           /\ pc = "returned" =>
                  /\ result.metrics.grid_export_energy_kwh = Zero
                  /\ result.metrics.grid_export_revenue = Zero

\* a slot that exports while the battery takes less than its rate, because
\* max_soc is near, and the revenue of the export is in the totals
C14_Witness ==
    \E i \in Slots :
        /\ RGt(schedule[i].grid_export_kw, Zero)
        /\ RGt(trace[i].flows.battery_charge_kw, Zero)
        /\ RLt(trace[i].flows.battery_charge_kw, config.battery_max_charge_kw)
        /\ RGt(totals.grid_export_revenue, Zero)

\* C15: whatever the interleaving, on one engine or on two, an invocation that has
\* returned has returned what it returns when run alone, and the engines' fields
\* and the callers' lists are as they were before the invocations
C15_InvocationsIsolated ==
    /\ engines = Engines
    /\ caller_lists = CallerLists
    /\ \A p \in Invocations :
           call[p].pc = "returned" =>
               call[p].result =
                   RunAlone(Engines[call[p].engine],
                            CallerLists.forecast[call[p].forecast],
                            CallerLists.devices[call[p].devices],
                            call[p].initial_battery_soc, call[p].time_slot_minutes)

\* two invocations on one engine, over the same forecast list, have each taken
\* steps while the other was running, and have returned different results
C15_Witness ==
    /\ \A p \in Invocations : call[p].pc = "returned" /\ call[p].overlapped
    /\ call[1].engine = call[2].engine
    /\ call[1].forecast = call[2].forecast
    /\ call[1].result # call[2].result

\* the grid rate of slot i: the peak rate from peak_start up to peak_end
SlotGridRate(i) ==
    IF /\ config.grid_peak_hours.start <= schedule[i].time
       /\ schedule[i].time < config.grid_peak_hours.end
    THEN config.grid_peak_rate ELSE config.grid_off_peak_rate

\* what the residual deficit of slot i costs from the grid and from the generator
SlotGridCost(i) ==
    RMul(RMul(SlotGridRate(i), ResidualDeficit(i)), Q(time_slot_minutes, 60))

SlotGeneratorCost(i) ==
    RMul(RMul(RMul(ResidualDeficit(i), Q(time_slot_minutes, 60)),
              config.generator_fuel_consumption),
         config.generator_fuel_cost)

\* C16: a residual deficit (above the 0.01 kW threshold) goes entirely to the
\* generator when the generator is strictly cheaper and the deficit is within
\* generator_max_power_kw, entirely to the grid otherwise, equal costs included;
\* the two are never both positive and the generator never exceeds its maximum
C16_AllOrNothing ==
    \A i \in Slots :
        /\ RGt(ResidualDeficit(i), Q(1, 100)) =>
               IF /\ RLt(SlotGeneratorCost(i), SlotGridCost(i))
                  /\ RLe(ResidualDeficit(i), config.generator_max_power)
               THEN /\ trace[i].flows.generator_power_kw = ResidualDeficit(i)
                    /\ trace[i].flows.grid_import_kw = Zero
                    /\ schedule[i].grid_import_kw = Zero
               ELSE /\ trace[i].flows.grid_import_kw = ResidualDeficit(i)
                    /\ trace[i].flows.generator_power_kw = Zero
                    /\ schedule[i].generator_power_kw = Zero
        /\ RLe(ResidualDeficit(i), Q(1, 100)) =>
               /\ trace[i].flows.grid_import_kw = Zero
               /\ trace[i].flows.generator_power_kw = Zero
        /\ ~(RGt(schedule[i].generator_power_kw, Zero)
             /\ RGt(schedule[i].grid_import_kw, Zero))
        /\ RLe(trace[i].flows.generator_power_kw, config.generator_max_power)
        /\ RLe(schedule[i].generator_power_kw, config.generator_max_power)

\* one run with a slot on the grid at equal cost and a later slot on the generator
C16_Witness ==
    \E i, j \in Slots :
        /\ RGt(ResidualDeficit(i), Q(1, 100))
        /\ SlotGeneratorCost(i) = SlotGridCost(i)
        /\ trace[i].flows.grid_import_kw = ResidualDeficit(i)
        /\ RGt(ResidualDeficit(j), Q(1, 100))
        /\ trace[j].flows.generator_power_kw = ResidualDeficit(j)

\* what the battery can give in slot i: the discharge rate, or less when min_soc
\* is near, and nothing at or below min_soc
FullDischarge(i) ==
    LET headroom ==
            RDiv(RMul(RSub(trace[i].soc_before, config.battery_min_soc),
                      config.battery_capacity_kwh),
                 Q(time_slot_minutes, 60))
    IN  IF RGt(headroom, Zero)
        THEN RMin(config.battery_max_discharge_kw, headroom) ELSE Zero

\* C17: a slot that imports or runs the generator has the battery discharging all
\* it can, and the grid and the generator give only what is then still missing
C17_BatteryBeforeGrid ==
    \A i \in Slots :
        (\/ RGt(trace[i].flows.grid_import_kw, Zero)
         \/ RGt(trace[i].flows.generator_power_kw, Zero)
         \/ RGt(schedule[i].grid_import_kw, Zero)
         \/ RGt(schedule[i].generator_power_kw, Zero)) =>
            /\ trace[i].flows.battery_discharge_kw = FullDischarge(i)
            /\ schedule[i].battery_discharge_kw = Round(FullDischarge(i), 100)
            /\ RAdd(trace[i].flows.grid_import_kw, trace[i].flows.generator_power_kw) =
                   RSub(RSub(trace[i].total_load_kw, trace[i].solar_generation_kw),
                        FullDischarge(i))

\* a slot that imports while the battery gives less than its rate, min_soc being near
C17_Witness ==
    \E i \in Slots :
        /\ RGt(schedule[i].grid_import_kw, Zero)
        /\ RGt(schedule[i].battery_discharge_kw, Zero)
        /\ RLt(trace[i].flows.battery_discharge_kw, config.battery_max_discharge_kw)

\* the forecast-drop rule as the selector applies it in slot i
DeferredByDropRule(i) ==
    /\ PowerDropDetected(forecast_data[i].mean, trace[i].solar_generation_kw)
    /\ RLt(trace[i].soc_before, Q(4, 10))

\* C18 as stated: an active irrigation device of priority_level <= 2 that the
\* drop rule does not defer, in a slot inside its preferred hours, is selected,
\* whatever the supply and the budget
C18_HighPriorityIrrigationRuns ==
    \A i \in Slots :
        \A k \in DOMAIN devices :
            (/\ devices[k].is_active
             /\ devices[k].device_type = "irrigation"
             /\ devices[k].priority_level <= 2
             /\ ~DeferredByDropRule(i)
             /\ ~OutsidePreferred(devices[k], schedule[i].time)) =>
                devices[k] \in Range(trace[i].selected)

\* the budget left in slot i after the devices in sel: supply minus their draws
BudgetAfter(i, sel) == RSub(trace[i].solar_generation_kw, SumPowerKw(sel))

\* device d, considered after the devices in sel, is inside its preferred hours
\* and leaves the essential safety buffer untouched
FitsAfter(i, d, sel) ==
    /\ ~OutsidePreferred(d, schedule[i].time)
    /\ RGe(RSub(BudgetAfter(i, sel), PowerKw(d)),
           RMul(config.safety_margin,
                SumPowerKw(SelectSeq(sel, LAMBDA x : x.device_type = "essential"))))

\* C19 as stated: every flexible or optional device in a slot's selection was
\* inside its preferred hours and within the budget when it was added
C19_FlexibleWithinBudget ==
    \A i \in Slots :
        \A k \in DOMAIN trace[i].selected :
            trace[i].selected[k].device_type \in {"flexible", "optional"} =>
                FitsAfter(i, trace[i].selected[k], SubSeq(trace[i].selected, 1, k - 1))

\* the position of device d in the sorted list of the run
PlaceOf(d) == CHOOSE n \in DOMAIN sorted_devices : sorted_devices[n] = d

\* the part of slot i's selection made before the flexible/optional device d had
\* its turn: the essential devices, the irrigation devices, and the selected
\* flexible/optional devices that stand before d in the sorted list
SelectedBeforeTurn(i, d) ==
    SelectSeq(trace[i].selected,
              LAMBDA x : \/ x.device_type = "essential"
                         \/ IsIrrigationPump(x)
                         \/ PlaceOf(x) < PlaceOf(d))

\* C19 amended: the statement holds of the flexible and optional devices that are
\* not classed as irrigation by their name; and such a device is left out only
\* if it does not fit at its turn, whatever happened to the devices before it
C19_FlexibleWithinBudgetUnlessPump ==
    \A i \in Slots :
        /\ \A k \in DOMAIN trace[i].selected :
               (/\ trace[i].selected[k].device_type \in {"flexible", "optional"}
                /\ ~IsIrrigationPump(trace[i].selected[k])) =>
                   FitsAfter(i, trace[i].selected[k],
                             SubSeq(trace[i].selected, 1, k - 1))
        /\ \A n \in DOMAIN sorted_devices :
               (/\ sorted_devices[n].device_type \in {"flexible", "optional"}
                /\ ~IsIrrigationPump(sorted_devices[n])
                /\ sorted_devices[n] \notin Range(trace[i].selected)) =>
                   ~FitsAfter(i, sorted_devices[n],
                              SelectedBeforeTurn(i, sorted_devices[n]))

\* a slot in which a device is left out for lack of budget and a device after it
\* in the sorted list is added
C19_Witness ==
    \E i \in Slots :
        \E m, n \in DOMAIN sorted_devices :
            /\ m < n
            /\ sorted_devices[m].device_type \in {"flexible", "optional"}
            /\ ~OutsidePreferred(sorted_devices[m], schedule[i].time)
            /\ sorted_devices[m] \notin Range(trace[i].selected)
            /\ sorted_devices[n].device_type \in {"flexible", "optional"}
            /\ sorted_devices[n] \in Range(trace[i].selected)

\* the devices of step 3: flexible or optional, not irrigation by class or name
InStepThree(d) ==
    d.device_type \in {"flexible", "optional"} /\ ~IsIrrigationPump(d)

\* what steps 1 and 2 selected in slot i
SelectedBeforeStepThree(i) ==
    SelectSeq(trace[i].selected, LAMBDA x : ~InStepThree(x))

\* the selection of slot i had step 3 taken its candidates in the order cands
SelectionInOrder(i, cands) ==
    FlexLoop(config,
             [sel |-> SelectedBeforeStepThree(i),
              avail |-> BudgetAfter(i, SelectedBeforeStepThree(i))],
             cands, schedule[i].time).sel

\* the step-3 candidates of the catalog by ascending priority_level, then id
ByPriorityThenId ==
    LET c == SelectSeq(ActiveDevices(devices), InStepThree)
    IN  StableSort(c, [n \in DOMAIN c |-> <<c[n].priority_level, c[n].id>>])

\* the caller's list in the opposite order
Reversed(seq) == [n \in DOMAIN seq |-> seq[Len(seq) + 1 - n]]

\* C20 as stated: every slot selects what step 3 selects when it takes the
\* flexible and optional devices by priority_level then id, and selects the same
\* devices when the caller lists the catalog in the opposite order
C20_OrderByPriorityThenId ==
    \A i \in Slots :
        /\ Range(trace[i].selected) = Range(SelectionInOrder(i, ByPriorityThenId))
        /\ Range(trace[i].selected) =
               Range(SelectDevicesForSlot(config, SortedDevices(Reversed(devices)),
                                          schedule[i].time, forecast_data[i].mean,
                                          trace[i].soc_before,
                                          trace[i].solar_generation_kw))

\* the place of device d in the caller's list
CallerPlace(d) == CHOOSE n \in DOMAIN devices : devices[n] = d

\* d comes before e in the order of the code: flexible before optional, then
\* ascending priority_level, then the caller's order
ConsideredBefore(d, e) ==
    LET rank(x) == IF x.device_type = "flexible" THEN 1 ELSE 2
    IN  \/ rank(d) < rank(e)
        \/ rank(d) = rank(e) /\ d.priority_level < e.priority_level
        \/ /\ rank(d) = rank(e)
           /\ d.priority_level = e.priority_level
           /\ CallerPlace(d) < CallerPlace(e)

\* C20 amended: the order is flexible before optional, ascending priority_level
\* within the class, ties in the caller's order.  The selected step-3 devices
\* stand in that order, and a step-3 device is left out only if it does not fit
\* after the selected devices that come before it in that order
C20_OrderByClassThenPriority ==
    \A i \in Slots :
        /\ \A k, l \in DOMAIN trace[i].selected :
               (/\ k < l
                /\ InStepThree(trace[i].selected[k])
                /\ InStepThree(trace[i].selected[l])) =>
                   ConsideredBefore(trace[i].selected[k], trace[i].selected[l])
        /\ \A n \in DOMAIN devices :
               (/\ devices[n].is_active
                /\ InStepThree(devices[n])
                /\ devices[n] \notin Range(trace[i].selected)) =>
                   ~FitsAfter(i, devices[n],
                              SelectSeq(trace[i].selected,
                                        LAMBDA x : \/ ~InStepThree(x)
                                                   \/ ConsideredBefore(x, devices[n])))

\* a run with a slot in which a flexible device of priority 2 takes the budget
\* that an optional device of priority 1 would have fitted, and a slot in which,
\* of two optional devices of priority 1, the one the caller lists first is added
\* and the other, of lower id or not, no longer fits
C20_Witness ==
    \E i, j \in Slots :
        /\ \E a, b \in Range(devices) :
               /\ a.device_type = "flexible" /\ b.device_type = "optional"
               /\ b.priority_level < a.priority_level
               /\ a \in Range(trace[i].selected)
               /\ b \notin Range(trace[i].selected)
               /\ FitsAfter(i, b, SelectedBeforeStepThree(i))
        /\ \E a, b \in Range(devices) :
               /\ a.device_type = b.device_type
               /\ a.priority_level = b.priority_level
               /\ CallerPlace(a) < CallerPlace(b)
               /\ a \in Range(trace[j].selected)
               /\ b \notin Range(trace[j].selected)
               /\ FitsAfter(j, b, SelectedBeforeStepThree(j))

\* a high-supply slot as the comment of line 354 words it: either condition
HighSupplyEither(i) ==
    \/ RGt(trace[i].solar_generation_kw, RMul(config.capacity_kw, Q(1, 2)))
    \/ RGt(trace[i].solar_generation_kw, I(20))

\* the selection of slot i when the irrigation step takes `high` for is_high_solar
SelectionWithHigh(i, high) ==
    LET s0 == [sel |-> <<>>, avail |-> trace[i].solar_generation_kw]
        s1 == AddEssential(s0, EssentialDevices(sorted_devices))
        s2 == PumpLoop(config, s1, IrrigationPumpsSorted(sorted_devices),
                       schedule[i].time, trace[i].soc_before,
                       DeferredByDropRule(i), high)
        s3 == FlexLoop(config, s2, FlexibleDevices(sorted_devices), schedule[i].time)
    IN  s3.sel

\* C21 as stated: a slot whose supply exceeds half the rated capacity or exceeds
\* 20 kW admits irrigation devices by the reduced-buffer rule, every other slot
\* by the rule for normal and low supply
C21_HighSupplyEitherCondition ==
    \A i \in Slots : trace[i].selected = SelectionWithHigh(i, HighSupplyEither(i))

\* C22 as stated: no device is listed twice in a slot, and the slot's load is
\* the sum of the draws of the distinct devices selected
C22_NoDeviceTwice ==
    \A i \in Slots :
        /\ \A k, l \in DOMAIN schedule[i].devices :
               k # l => schedule[i].devices[k].id # schedule[i].devices[l].id
        /\ trace[i].total_load_kw =
               SumPowerKw(SelectSeq(devices, LAMBDA d : d \in Range(trace[i].selected)))

\* C23 as stated: the five flows of every slot are >= 0, whatever initial SOC
\* the caller gave
C23_FlowsNonNegative ==
    \A i \in Slots :
        /\ RGe(schedule[i].battery_charge_kw, Zero)
        /\ RGe(schedule[i].battery_discharge_kw, Zero)
        /\ RGe(schedule[i].grid_import_kw, Zero)
        /\ RGe(schedule[i].grid_export_kw, Zero)
        /\ RGe(schedule[i].generator_power_kw, Zero)

\* the clamp of the SOC update leaves the stored energy of slot i as it was
ClampIdle(i) == trace[i].battery_energy_kwh = trace[i].unclamped_energy_kwh

\* the energy the battery holds above min_soc at the start of slot i
EnergyAboveMin(i) ==
    RSub(trace[i].energy_before, RMul(config.battery_min_soc, config.battery_capacity_kwh))

\* the energy taken out of the battery in slot i, the discharge loss counted
EnergyDrawn(i) ==
    RMul(RDiv(trace[i].flows.battery_discharge_kw, config.battery_efficiency),
         SlotDurationHours(time_slot_minutes))

\* C24 as stated: from an initial SOC in [min_soc, max_soc] the clamp never
\* changes the stored energy, and no slot takes more out of the battery than it
\* holds above min_soc
C24_ClampNeverActs ==
    (pc # "idle" /\ StartsInRange) =>
        \A i \in Slots : ClampIdle(i) /\ RLe(EnergyDrawn(i), EnergyAboveMin(i))

\* slot i starts from the SOC and the stored energy the slot before it left,
\* the first slot from the caller's initial SOC
ThreadedForward(i) ==
    /\ trace[i].soc_before =
           IF i = 1 THEN initial_battery_soc ELSE trace[i - 1].current_soc
    /\ trace[i].energy_before =
           IF i = 1 THEN RMul(initial_battery_soc, config.battery_capacity_kwh)
           ELSE trace[i - 1].battery_energy_kwh

\* the battery neither charges nor discharges in slot i
NoBatteryFlow(i) ==
    /\ trace[i].flows.battery_charge_kw = Zero
    /\ trace[i].flows.battery_discharge_kw = Zero

\* C25 as stated: the SOC is threaded from slot to slot, and a slot without
\* battery flow ends with the SOC it started with
C25_SocChangesOnlyByFlows ==
    \A i \in Slots :
        /\ ThreadedForward(i)
        /\ NoBatteryFlow(i) =>
               /\ trace[i].current_soc = trace[i].soc_before
               /\ schedule[i].battery_soc = Round(trace[i].soc_before, 1000)

\* a SOC brought into [battery_min_soc, battery_max_soc]
ClampedSoc(soc) == RMax(config.battery_min_soc, RMin(config.battery_max_soc, soc))

\* C25 amended: the SOC is threaded from slot to slot, and a slot without
\* battery flow ends with the SOC it started with brought into [min_soc,
\* max_soc]; only the first slot can start outside that range
C25_SocChangesOnlyByFlowsOrClamp ==
    \A i \in Slots :
        /\ ThreadedForward(i)
        /\ NoBatteryFlow(i) =>
               /\ trace[i].current_soc = ClampedSoc(trace[i].soc_before)
               /\ schedule[i].battery_soc = Round(ClampedSoc(trace[i].soc_before), 1000)
        /\ i > 1 => trace[i].soc_before = ClampedSoc(trace[i].soc_before)

\* a run whose first slot starts outside the range, has no battery flow and is
\* clamped, and in which a later slot without battery flow follows a slot that
\* changed the SOC and keeps it strictly inside the range
C25_Witness ==
    /\ Len(trace) >= 1
    /\ NoBatteryFlow(1)
    /\ trace[1].soc_before # ClampedSoc(trace[1].soc_before)
    /\ \E i \in Slots :
          /\ i > 1
          /\ trace[i - 1].current_soc # trace[i - 1].soc_before
          /\ ~NoBatteryFlow(i - 1)
          /\ NoBatteryFlow(i)
          /\ RLt(config.battery_min_soc, trace[i].soc_before)
          /\ RLt(trace[i].soc_before, config.battery_max_soc)

\* the sources a power_source label names
LabelSources(label) ==
    CASE label = "solar" -> {"solar"}
      [] label = "solar+battery" -> {"solar", "battery"}
      [] label = "solar+grid" -> {"solar", "grid"}
      [] label = "battery" -> {"battery"}
      [] label = "battery+grid" -> {"battery", "grid"}
      [] label = "grid" -> {"grid"}
      [] label = "generator" -> {"generator"}

\* the power source src delivers in slot i
Delivered(i, src) ==
    CASE src = "solar" -> trace[i].solar_generation_kw
      [] src = "battery" -> trace[i].flows.battery_discharge_kw
      [] src = "grid" -> trace[i].flows.grid_import_kw
      [] src = "generator" -> trace[i].flows.generator_power_kw

\* C26 as stated: every source named by the label of a selected device delivers
\* strictly positive power in the slot
C26_LabelNamesPositiveSources ==
    \A i \in Slots :
        \A k \in DOMAIN schedule[i].devices :
            \A src \in LabelSources(schedule[i].devices[k].power_source) :
                RGt(Delivered(i, src), Zero)

\* values of generator_min_runtime_minutes: none, and several slots long
MinRuntimes == {0, 240}

\* the generator serves slot i
GeneratorUsed(i) == RGt(trace[i].flows.generator_power_kw, Zero)

\* the conditions of slot i alone under which the generator is chosen
GeneratorChosen(i) ==
    /\ RGt(ResidualDeficit(i), Q(1, 100))
    /\ RLt(SlotGeneratorCost(i), SlotGridCost(i))
    /\ RLe(ResidualDeficit(i), config.generator_max_power)

\* C27: the flows of a slot are the same for every generator_min_runtime; the
\* generator serves a slot exactly under the conditions of that slot (residual
\* deficit, cost, maximum power), whatever it did in the slot before; and the
\* reported runtime is the slot length times the number of slots it served
C27_MinRuntimeNotEnforced ==
    /\ \A i \in Slots :
           /\ \A r \in MinRuntimes :
                  trace[i].flows =
                      Dispatch([config EXCEPT !.generator_min_runtime = r],
                               trace[i].solar_generation_kw, trace[i].total_load_kw,
                               trace[i].soc_before, schedule[i].time,
                               SlotDurationHours(time_slot_minutes))
           /\ GeneratorUsed(i) <=> GeneratorChosen(i)
    /\ pc = "returned" =>
           result.metrics.generator_runtime_minutes =
               Round(RMul(I(time_slot_minutes),
                          I(Cardinality({i \in Slots : GeneratorUsed(i)}))), 10)

\* a returned run with slots shorter than generator_min_runtime in which the
\* generator serves a slot and is off in the next, and is off in a slot and
\* serves the next
C27_Witness ==
    /\ pc = "returned"
    /\ time_slot_minutes < config.generator_min_runtime
    /\ \E i, j \in Slots :
          /\ i + 1 \in Slots /\ j + 1 \in Slots
          /\ GeneratorUsed(i) /\ ~GeneratorUsed(i + 1)
          /\ ~GeneratorUsed(j) /\ GeneratorUsed(j + 1)
          /\ RGt(trace[j].flows.grid_import_kw, Zero)

\* the values of optimization_mode
OptimizationModes == {"cost", "battery_longevity", "grid_independence"}

\* C28: the result returned is the one the same call returns under each of the
\* other optimization modes, the rest of the configuration being equal
C28_ModeHasNoEffect ==
    pc = "returned" =>
        \A m \in OptimizationModes \ {config.optimization_mode} :
            RunAlone([config EXCEPT !.optimization_mode = m], forecast_data, devices,
                     initial_battery_soc, time_slot_minutes) = result

\* a returned run that used battery, grid and generator, on an engine whose mode
\* is one of the three
C28_Witness ==
    /\ pc = "returned"
    /\ config.optimization_mode \in OptimizationModes
    /\ \E i, j, k \in Slots :
          /\ RGt(trace[i].flows.generator_power_kw, Zero)
          /\ RGt(trace[j].flows.grid_import_kw, Zero)
          /\ RGt(trace[k].flows.battery_discharge_kw, Zero)
    /\ \E i \in Slots : Len(trace[i].selected) > 0

\* C29: with essential_safety_margin >= 0, a slot whose selection contains a
\* flexible or optional device that is not an irrigation pump has a supply that
\* covers its load, and draws nothing from battery, grid or generator
C29_FlexibleNeverCausesDeficit ==
    \A i \in Slots :
        (/\ RGe(config.safety_margin, Zero)
         /\ \E k \in DOMAIN trace[i].selected : InStepThree(trace[i].selected[k])) =>
            /\ RGe(trace[i].solar_generation_kw, trace[i].total_load_kw)
            /\ trace[i].flows.battery_discharge_kw = Zero
            /\ trace[i].flows.grid_import_kw = Zero
            /\ trace[i].flows.generator_power_kw = Zero
            /\ schedule[i].battery_discharge_kw = Zero
            /\ schedule[i].grid_import_kw = Zero
            /\ schedule[i].generator_power_kw = Zero

\* a run with a slot that runs an essential device and a flexible or optional
\* one within the supply, and a slot in which the same catalog runs into a
\* deficit and no flexible or optional device is selected
C29_Witness ==
    \E i, j \in Slots :
        /\ \E k \in DOMAIN trace[i].selected :
               trace[i].selected[k].device_type = "essential"
        /\ \E k \in DOMAIN trace[i].selected : InStepThree(trace[i].selected[k])
        /\ RGt(trace[i].total_load_kw, Zero)
        /\ RLt(trace[j].solar_generation_kw, trace[j].total_load_kw)
        /\ \A k \in DOMAIN trace[j].selected : ~InStepThree(trace[j].selected[k])

\* C30: no slot imports more than its load, the accumulated import never
\* exceeds the accumulated load, and the reported grid_import_reduction_percent
\* lies in [0, 100]
C30_ImportWithinLoad ==
    /\ \A i \in Slots :
           /\ RLe(trace[i].flows.grid_import_kw, trace[i].total_load_kw)
           /\ RLe(schedule[i].grid_import_kw, schedule[i].total_load_kw)
    /\ RLe(totals.grid_import, totals.load_energy)
    /\ pc = "returned" =>
           /\ RGe(result.metrics.grid_import_reduction_percent, Zero)
           /\ RLe(result.metrics.grid_import_reduction_percent, I(100))

\* a returned run with a slot whose whole load is imported and a slot served
\* without import, the reduction lying strictly between 0 and 100
C30_Witness ==
    /\ pc = "returned"
    /\ RGt(result.metrics.grid_import_reduction_percent, Zero)
    /\ RLt(result.metrics.grid_import_reduction_percent, I(100))
    /\ \E i, j \in Slots :
          /\ RGt(trace[i].total_load_kw, Zero)
          /\ trace[i].flows.grid_import_kw = trace[i].total_load_kw
          /\ RGt(trace[j].total_load_kw, Zero)
          /\ trace[j].flows.grid_import_kw = Zero

====
